---- MODULE Spec2Model ----
(***************************************************************************)
(* Job lifecycle of the QETL SDK local backend (qetl_sdk/local_runner.py,  *)
(* qetl_sdk/job.py): the in-memory job table guarded by _job_lock, one     *)
(* background runner thread per job, and the client calls that read or     *)
(* cancel a job.  Every step below is one critical section of _job_lock or *)
(* one call outside the lock (file load, executor call).                   *)
(***************************************************************************)
EXTENDS Integers, Sequences, FiniteSets, TLC

\* ---------------------------------------------------------------- bounds
MaxJobs == 2

\* Job.get_status calls made on the handle.
MaxRefresh == 2

\* Callbacks registered on the handle, of both kinds together.
MaxCallbacks == 2

\* Job.get_results calls made on the handle.
MaxResultsCalls == 2

\* Largest limit passed to list_jobs.
MaxLimit == 2

JobIds == 1..MaxJobs

\* ------------------------------------------------------------- JobState
SUBMITTED    == "submitted"
VALIDATING   == "validating"
QUEUED       == "queued"
INITIALIZING == "initializing"
RUNNING      == "running"
COMPLETING   == "completing"
COMPLETED    == "completed"
FAILED       == "failed"
CANCELLED    == "cancelled"

JobState == {SUBMITTED, VALIDATING, QUEUED, INITIALIZING, RUNNING,
             COMPLETING, COMPLETED, FAILED, CANCELLED}

\* JobStatus.is_terminal: the set the property tests membership in.
TerminalStates == {COMPLETED, FAILED, CANCELLED}

\* progress=None of the failure path.
NoProgress == -1

\* A dictionary key that is not set is the empty sequence, a set key a
\* one-element sequence.
Absent == << >>

Present(v) == << v >>

\* ------------------------------------------------------------ variables
VARIABLES
    jobs,       \* LocalRunner.jobs: job id -> job record
    pc,         \* position of the runner thread of each job id
    exc,        \* the exception a runner thread caught (local e)
    result,     \* the executor's result held by a runner thread (local result)
    hist,       \* per job, the states written to its record, in order
    lastCall,   \* the last client call that returned or raised
    handle,     \* the Job object submit_job returned for the first job
    hcall,      \* the last call on that Job object that returned or raised
    listing,    \* the last list_jobs call: its arguments and the ids returned
    builder,    \* a JobBuilder: its configuration and what its last call did
    info,       \* a get_instance_info call: its position and what it has read
    trues,      \* per job, the number of cancel calls that returned True
    clone,      \* the JobBuilder that clone() returned
    sync        \* _job_lock: its holder, and the position of the client thread

vars == <<jobs, pc, exc, result, hist, lastCall, handle, hcall, listing, builder, info, trues, clone, sync>>

NoCall == [op |-> "none", job |-> 0, ret |-> "none", status |-> Absent,
           before |-> Absent, after |-> Absent]

\* ------------------------------------------------------- runner program
\* Positions of _execute_job; "idle" is a job id without a thread yet.
UpdatePcs == {"validating", "queued", "initializing", "running",
              "completing", "completed"}

\* Faulty variant of StepState: QUEUED and INITIALIZING written in the wrong
\* order.
StepStateSwapped(p) ==
    CASE p = "validating"   -> VALIDATING
      [] p = "queued"       -> INITIALIZING
      [] p = "initializing" -> QUEUED
      [] p = "running"      -> RUNNING
      [] p = "completing"   -> COMPLETING
      [] p = "completed"    -> COMPLETED

\* Faulty variant of StepState: COMPLETED written before COMPLETING.
StepStateEarlyCompleted(p) ==
    CASE p = "validating"   -> VALIDATING
      [] p = "queued"       -> QUEUED
      [] p = "initializing" -> INITIALIZING
      [] p = "running"      -> RUNNING
      [] p = "completing"   -> COMPLETED
      [] p = "completed"    -> COMPLETING

\* State written by the _update_job_status call at each position.
StepState(p) ==
    CASE p = "validating"   -> VALIDATING
      [] p = "queued"       -> QUEUED
      [] p = "initializing" -> INITIALIZING
      [] p = "running"      -> RUNNING
      [] p = "completing"   -> COMPLETING
      [] p = "completed"    -> COMPLETED

\* Faulty variant of StepProgress: COMPLETING written with progress 9.
StepProgressDropping(p) ==
    CASE p = "validating"   -> 10
      [] p = "queued"       -> 20
      [] p = "initializing" -> 30
      [] p = "running"      -> 40
      [] p = "completing"   -> 9
      [] p = "completed"    -> 100

\* Progress written by the _update_job_status call at each position.
StepProgress(p) ==
    CASE p = "validating"   -> 10
      [] p = "queued"       -> 20
      [] p = "initializing" -> 30
      [] p = "running"      -> 40
      [] p = "completing"   -> 90
      [] p = "completed"    -> 100

StepMessage(p) ==
    CASE p = "validating"   -> "Validating configuration"
      [] p = "queued"       -> "Job queued for execution"
      [] p = "initializing" -> "Initializing execution environment"
      [] p = "running"      -> "Executing pipeline"
      [] p = "completing"   -> "Processing results"
      [] p = "completed"    -> "Job completed successfully"

\* Faulty variant of NextPc: a failed job is run again once its error has
\* been stored.
NextPcRetrying(p) ==
    CASE p = "copy"          -> "validating"
      [] p = "validating"    -> "load"
      [] p = "load"          -> "queued"
      [] p = "queued"        -> "initializing"
      [] p = "initializing"  -> "running"
      [] p = "running"       -> "exec"
      [] p = "exec"          -> "completing"
      [] p = "completing"    -> "store_results"
      [] p = "store_results" -> "completed"
      [] p = "completed"     -> "done"
      [] p = "fail_status"   -> "store_error"
      [] p = "store_error"   -> "running"

\* Faulty variant of NextPc: the results are stored after COMPLETED has been
\* written.
NextPcStoringLate(p) ==
    CASE p = "copy"          -> "validating"
      [] p = "validating"    -> "load"
      [] p = "load"          -> "queued"
      [] p = "queued"        -> "initializing"
      [] p = "initializing"  -> "running"
      [] p = "running"       -> "exec"
      [] p = "exec"          -> "completing"
      [] p = "completing"    -> "completed"
      [] p = "completed"     -> "store_results"
      [] p = "store_results" -> "done"
      [] p = "fail_status"   -> "store_error"
      [] p = "store_error"   -> "done"

\* Position reached after the statement at p returns normally.
NextPc(p) ==
    CASE p = "copy"          -> "validating"
      [] p = "validating"    -> "load"
      [] p = "load"          -> "queued"
      [] p = "queued"        -> "initializing"
      [] p = "initializing"  -> "running"
      [] p = "running"       -> "exec"
      [] p = "exec"          -> "completing"
      [] p = "completing"    -> "store_results"
      [] p = "store_results" -> "completed"
      [] p = "completed"     -> "done"
      [] p = "fail_status"   -> "store_error"
      [] p = "store_error"   -> "done"

\* Faulty variant of ExceptPc: the exception ends the thread unhandled.
ExceptPcSwallowing == "done"

\* Faulty variant of ExceptPc: the handler stores the error without writing
\* FAILED.
ExceptPcSkippingStatus == "store_error"

\* Position an exception raised inside the try block transfers control to.
ExceptPc == "fail_status"

\* Faulty variant of UpdateOutcomes: the COMPLETED update can raise.
UpdateOutcomesRaising(p) ==
    IF p = "completed" THEN {"ok", "Exception"} ELSE {"ok"}

\* Outcomes of an _update_job_status call in the try block: the method only
\* takes the lock and updates a record it has checked to exist.
UpdateOutcomes(p) == {"ok"}

\* Outcomes of open(yaml_path) + yaml.safe_load in the runner thread: the
\* file submit_job has validated is still there, or it has been removed
\* since.
LoadOutcomes == {"ok", "FileNotFoundError"}

\* Outcomes of _run_yaml_pipeline: the subprocess exits 0; it exceeds
\* self.timeout; or it exits non-zero or subprocess.run raises, which both
\* leave through the `except Exception` clause.
ExecOutcomes == {"success", "timeout", "failed"}

\* The JobExecutionError message _run_yaml_pipeline raises per outcome, as
\* str(e) prints it: "[JOB_EXECUTION_ERROR] " + message, the text of the
\* wrapped exception left out.
PipelineErrorMessage(o) ==
    CASE o = "timeout" -> "[JOB_EXECUTION_ERROR] Pipeline execution timed out"
      [] o = "failed"  -> "[JOB_EXECUTION_ERROR] Failed to execute pipeline"

\* -------------------------------------------------------- job table ops
\* The job_data dictionary submit_job stores.
NewJobRecord(j) ==
    [job_id     |-> j,
     status     |-> SUBMITTED,
     progress   |-> 0,
     message    |-> "Job submitted",
     updated_at |-> 0,    \* logical time: the number of writes to the record
     results    |-> Absent,
     error      |-> Absent]

\* Faulty variant of UpdateJobStatus: the state is written, the progress is
\* left for a later write.
UpdateJobStatusStateOnly(tbl, j, state, progress, message) ==
    IF j \in DOMAIN tbl
    THEN [tbl EXCEPT ![j] = [@ EXCEPT !.status     = state,
                                      !.message    = message,
                                      !.updated_at = @ + 1]]
    ELSE tbl

\* _update_job_status: one locked dict.update of the four fields.
UpdateJobStatus(tbl, j, state, progress, message) ==
    IF j \in DOMAIN tbl
    THEN [tbl EXCEPT ![j] = [@ EXCEPT !.status     = state,
                                      !.progress   = progress,
                                      !.message    = message,
                                      !.updated_at = @ + 1]]
    ELSE tbl

\* Variant of StatusIsTerminal: what the lookup would give if JobState had
\* the property.
StatusIsTerminalDefined(s) ==
    IF s \in TerminalStates THEN "True" ELSE "False"

\* Faulty variant of StatusIsTerminal: the lookup works but does not count
\* CANCELLED as terminal.
StatusIsTerminalForgetting(s) ==
    IF s \in {COMPLETED, FAILED} THEN "True" ELSE "False"

\* job_data["status"].is_terminal in cancel_job: job_data["status"] is a
\* JobState member, and is_terminal is a property of JobStatus, not of
\* JobState, so the attribute lookup raises.
StatusIsTerminal(s) == "AttributeError"

\* cancel_job: the value returned (or the exception raised) for job id j.
CancelJobRet(tbl, j) ==
    IF j \notin DOMAIN tbl THEN "False"
    ELSE IF StatusIsTerminal(tbl[j].status) = "AttributeError" THEN "AttributeError"
    ELSE IF StatusIsTerminal(tbl[j].status) = "True" THEN "False"
    ELSE "True"

\* cancel_job: the job table it leaves behind.
CancelJobTable(tbl, j) ==
    IF CancelJobRet(tbl, j) = "True"
    THEN [tbl EXCEPT ![j] = [@ EXCEPT !.status     = CANCELLED,
                                      !.message    = "Job cancelled by user",
                                      !.updated_at = @ + 1]]
    ELSE tbl

\* Job.cancel: backend exceptions are re-raised as QETLError.
JobCancelRet(tbl, j) ==
    IF CancelJobRet(tbl, j) \in {"True", "False"}
    THEN CancelJobRet(tbl, j)
    ELSE "QETLError"

\* get_job_status: the JobStatus built from the record.
JobStatusOf(rec) ==
    [job_id     |-> rec.job_id,
     state      |-> rec.status,
     progress   |-> rec.progress,
     message    |-> rec.message,
     updated_at |-> rec.updated_at]

Lookup(tbl, j) == IF j \in DOMAIN tbl THEN Present(tbl[j]) ELSE Absent

\* ------------------------------------------------------------ list_jobs
\* status=None of list_jobs.
NoFilter == "none"

\* Values of the status argument: None or the value of a JobState member.
Filters == {NoFilter} \cup JobState

\* Values of the limit argument.
Limits == 0..MaxLimit

NoListing == [status |-> NoFilter, limit |-> 0, ret |-> << >>, made |-> FALSE]

\* `if status and job_data["status"].value != status: continue`, negated.
Matches(rec, status) == status = NoFilter \/ rec.status = status

\* Faulty variant of LimitReached: one job too many before the loop ends.
LimitReachedLate(n, limit) == n > limit

\* if len(jobs) >= limit: break
LimitReached(n, limit) == n >= limit

RECURSIVE ListLoop(_, _, _, _, _)
\* The loop of list_jobs over the items of self.jobs from position i on,
\* acc being the list built so far; the ids of the Job objects returned.
ListLoop(tbl, i, status, limit, acc) ==
    IF i > Len(tbl) THEN acc
    ELSE IF ~Matches(tbl[i], status)
    THEN ListLoop(tbl, i + 1, status, limit, acc)
    ELSE IF LimitReached(Len(acc) + 1, limit)
    THEN Append(acc, tbl[i].job_id)
    ELSE ListLoop(tbl, i + 1, status, limit, Append(acc, tbl[i].job_id))

\* list_jobs(status, limit)
ListJobsRet(tbl, status, limit) == ListLoop(tbl, 1, status, limit, << >>)

\* ----------------------------------------------------------- Job handle
\* What a registered callback does when it is called.
Callbacks == {"ok", "raises"}

\* timeout=None of wait_until_complete.
NoTimeout == -1

\* Values of the timeout argument of wait_until_complete: None, 0, and 1 for
\* any positive number of seconds.
Timeouts == {NoTimeout, 0, 1}

\* `if timeout and ...`: None and 0 are both false.
TimeoutSet(t) == t # NoTimeout /\ t # 0

\* The Job object before submit_job has returned it.
NoHandle ==
    [made |-> FALSE, job |-> 0, status |-> Absent, results |-> Absent,
     scbs |-> << >>, ccbs |-> << >>, fetches |-> 0, refreshes |-> 0,
     calls |-> 0, timeout |-> NoTimeout, pc |-> "idle"]

\* Job.__init__: _status is the initial status, _results is None and both
\* callback lists are empty.  fetches counts the get_job_results calls the
\* object has made, refreshes and calls the get_status and get_results
\* calls clients have made on it; pc is the position of the thread that is
\* inside get_results or wait_until_complete, timeout the argument of the
\* latter.
NewHandle(j, st) ==
    [made |-> TRUE, job |-> j, status |-> Present(st), results |-> Absent,
     scbs |-> << >>, ccbs |-> << >>, fetches |-> 0, refreshes |-> 0,
     calls |-> 0, timeout |-> NoTimeout, pc |-> "idle"]

\* A call on the Job object: what it returned or raised, the state of the
\* status it returned or left cached, the results it returned and the error
\* it raised.
NoHCall ==
    [op |-> "none", ret |-> "none", status |-> "None", value |-> Absent,
     error |-> Absent]

\* State of the cached _status, "None" when it is None.
CachedState(h) == IF h.status = Absent THEN "None" ELSE h.status[1].state

\* A status callback in _status_callbacks: what it does when called,
\* whether it was registered while the job's record still held the
\* submitted state, and the states it has been called with so far.
NewCallback(kind, early) == [kind |-> kind, early |-> early, got |-> << >>]

\* A completion callback in _completion_callbacks: what it does when called
\* and the arguments (results, or None as the unset value) it has been
\* called with so far.
NewCompletionCallback(kind) == [kind |-> kind, got |-> << >>]

\* Faulty variant of IsTerminal: COMPLETING counts as terminal.
IsTerminalEarly(st) == st.state \in TerminalStates \cup {COMPLETING}

\* JobStatus.is_terminal
IsTerminal(st) == st.state \in TerminalStates

\* JobStatus.is_successful
IsSuccessful(st) == st.state = COMPLETED

FirstRaising(cbs) ==
    CHOOSE i \in 1..Len(cbs) :
        /\ cbs[i].kind = "raises"
        /\ \A k \in 1..(i - 1) : cbs[k].kind # "raises"

\* Faulty variant of InvokeAll: no try/except around the call, so the first
\* callback that raises ends the loop and its exception leaves it.
InvokeAllAborting(cbs, arg) ==
    IF \E i \in 1..Len(cbs) : cbs[i].kind = "raises"
    THEN [cbs |-> [i \in 1..Len(cbs) |->
                      IF i <= FirstRaising(cbs)
                      THEN [cbs[i] EXCEPT !.got = Append(@, arg)]
                      ELSE cbs[i]],
          escaped |-> TRUE]
    ELSE [cbs |-> [i \in 1..Len(cbs) |-> [cbs[i] EXCEPT !.got = Append(@, arg)]],
          escaped |-> FALSE]

\* for callback in cbs: try: callback(arg) / except Exception: pass
\* The callback list after the loop, and whether an exception left the loop.
InvokeAll(cbs, arg) ==
    [cbs |-> [i \in 1..Len(cbs) |-> [cbs[i] EXCEPT !.got = Append(@, arg)]],
     escaped |-> FALSE]

\* Faulty variant of ResultsCached: the fetched results are never reused.
ResultsCachedNever(h) == FALSE

\* `if self._results is None` of get_results, negated.
ResultsCached(h) == h.results # Absent

\* get_results after its wait loop (the cached status is terminal): the
\* handle afterwards, what the call returns or raises, the results returned
\* and the error raised.
GetResultsBody(h, tbl) ==
    IF ~IsSuccessful(h.status[1])
    THEN [h |-> h, ret |-> "QETLError", value |-> Absent,
          error |-> Present([type |-> "QETLError",
                             message |-> h.status[1].message])]
    ELSE IF ResultsCached(h)
    THEN [h |-> h, ret |-> "JobResults", value |-> h.results, error |-> Absent]
    ELSE IF h.job \notin DOMAIN tbl \/ tbl[h.job].results = Absent
    THEN [h |-> [h EXCEPT !.fetches = @ + 1], ret |-> "QETLError",
          value |-> Absent,
          error |-> Present([type |-> "QETLError",
                             message |-> "Failed to get job results"])]
    ELSE [h |-> [h EXCEPT !.results = tbl[h.job].results, !.fetches = @ + 1],
          ret |-> "JobResults", value |-> tbl[h.job].results, error |-> Absent]

\* _trigger_completion_callbacks, the cached status being set: the handle
\* afterwards and whether an exception left the method.
TriggerCompletionCallbacks(h, tbl) ==
    IF h.ccbs = << >> THEN [h |-> h, escaped |-> FALSE]
    ELSE LET r   == IF IsSuccessful(h.status[1])
                    THEN GetResultsBody(h, tbl)
                    ELSE [h |-> h, ret |-> "None", value |-> Absent,
                          error |-> Absent]
             c1  == InvokeAll(r.h.ccbs, r.value)
             \* except Exception: every callback is called with None
             c2  == InvokeAll(IF r.ret = "QETLError" THEN r.h.ccbs ELSE c1.cbs,
                              Absent)
         IN  IF r.ret # "QETLError" /\ ~c1.escaped
             THEN [h |-> [r.h EXCEPT !.ccbs = c1.cbs], escaped |-> FALSE]
             ELSE [h |-> [r.h EXCEPT !.ccbs = c2.cbs], escaped |-> c2.escaped]

\* get_status: read the store, call the status callbacks, call the
\* completion callbacks if the status read is terminal; any exception is
\* re-raised as QETLError.
GetStatusBody(h, tbl) ==
    IF h.job \notin DOMAIN tbl
    THEN [h |-> [h EXCEPT !.refreshes = @ + 1], ret |-> "QETLError"]
    ELSE LET st == JobStatusOf(tbl[h.job])
             s1 == InvokeAll(h.scbs, st.state)
             h1 == [h EXCEPT !.status = Present(st), !.scbs = s1.cbs,
                             !.refreshes = @ + 1]
             t  == IF IsTerminal(st)
                   THEN TriggerCompletionCallbacks(h1, tbl)
                   ELSE [h |-> h1, escaped |-> FALSE]
         IN  IF s1.escaped THEN [h |-> h1, ret |-> "QETLError"]
             ELSE [h |-> t.h,
                   ret |-> IF t.escaped THEN "QETLError" ELSE "JobStatus"]

\* The status property: the cached _status, refreshed only when it is None.
StatusProp(h, tbl) ==
    IF h.status = Absent THEN GetStatusBody(h, tbl) ELSE [h |-> h, ret |-> "JobStatus"]

\* ------------------------------------------------------------ JobBuilder
MaxTransformations == 2
MaxInputs == 1

\* Arguments of set_name, and of add_transformation: a name ("" for none),
\* a dependency list, and the "dependencies" entry of the config dictionary
\* (Absent when there is no config or the config has no such entry).
PipelineNames == {"", "Programmatic Pipeline"}
NameArgs == {"", "a", "b"}
DepArgs == {<< >>, << "a" >>, << "b" >>}
ConfigArgs == {Absent, Present(<< "a" >>)}
TransformationArgs ==
    {a \in [name : NameArgs, dependencies : DepArgs, config : ConfigArgs] :
        a.dependencies = << >> \/ a.config = Absent}

\* JobBuilder.__init__: the default configuration, no call made yet.
NewBuilder ==
    [config |-> [pipeline_name   |-> "Programmatic Pipeline",
                 input_sources   |-> << >>,
                 transformations |-> << >>],
     op     |-> "none",     \* the last builder call
     ret    |-> "none",     \* what it returned or raised
     errors |-> << >>,      \* the messages of the ValidationError it raised
     calls  |-> 0,          \* calls of client.submit_job made by the builder
     job    |-> 0,          \* the job the last submit returned
     pc     |-> "idle",     \* "unlink": submit is in its finally block
     tmp    |-> "none",     \* the temporary YAML file of the last accepted
                            \* submit: "none", "exists" or "removed"
     tmpjob |-> 0]          \* the job submitted from that file

\* The dictionary add_transformation appends: name and dependencies are
\* stored only when truthy.
NewTransformation(a) ==
    [name         |-> IF a.name # "" THEN Present(a.name) ELSE Absent,
     config       |-> a.config,
     dependencies |-> IF a.dependencies # << >>
                      THEN Present(a.dependencies) ELSE Absent]

\* dict.get(key, default)
GetOr(opt, default) == IF opt = Absent THEN default ELSE opt[1]

\* transformation_names: the names of the transformations that have one.
TransformationNames(ts) ==
    {ts[i].name[1] : i \in {k \in DOMAIN ts : ts[k].name # Absent}}

\* f"Unknown dependency: {dep}"
UnknownDependency(dep) ==
    CASE dep = "a" -> "Unknown dependency: a"
      [] dep = "b" -> "Unknown dependency: b"

\* Faulty variant of UnknownDeps: no dependency is looked up.
UnknownDepsNone(deps, names) == << >>

\* The messages for the entries of deps that are not in names, in order.
UnknownDeps(deps, names) ==
    LET unknown == SelectSeq(deps, LAMBDA d : d \notin names)
    IN  [i \in 1..Len(unknown) |-> UnknownDependency(unknown[i])]

\* The second loop of validate from transformation i on: per transformation
\* its own dependencies, then those of its config.
RECURSIVE DependencyErrors(_, _, _)
DependencyErrors(ts, i, names) ==
    IF i > Len(ts) THEN << >>
    ELSE UnknownDeps(GetOr(ts[i].dependencies, << >>), names)
         \o UnknownDeps(GetOr(ts[i].config, << >>), names)
         \o DependencyErrors(ts, i + 1, names)

\* The errors list validate builds.
ValidateErrors(c) ==
    (IF c.pipeline_name = "" THEN << "Pipeline name is required" >>
     ELSE << >>)
    \o (IF c.input_sources = << >>
        THEN << "At least one input source is required" >> ELSE << >>)
    \o (IF c.transformations = << >>
        THEN << "At least one transformation is required" >> ELSE << >>)
    \o DependencyErrors(c.transformations, 1,
                        TransformationNames(c.transformations))

\* Faulty variant of ValidateRaises: validate never raises.
ValidateRaisesNever(errors) == FALSE

\* if errors: raise ValidationError("; ".join(errors))
ValidateRaises(errors) == errors # << >>

\* What validate returns or raises.
ValidateRet(c) ==
    IF ValidateRaises(ValidateErrors(c)) THEN "ValidationError" ELSE "True"

\* ------------------------------------------------------------ _job_lock
\* Threads: the runner thread of job j is j, the client thread is
\* ClientThread; Free is the lock held by no thread.
Free == 0
ClientThread == -1

\* The lock is free and the client thread is between calls.
NoSync == [holder |-> Free, cpc |-> "idle", cop |-> "none", snap |-> Absent,
           calls |-> 0]

\* No get_instance_info call under way, none made.
NoInfo == [pc |-> "idle", active |-> 0, total |-> 0, ret |-> "none"]

\* clone() not called yet.
NoClone == [made |-> FALSE, pipeline_name |-> ""]

\* ----------------------------------------------------------------- Init
Init ==
    /\ jobs = << >>
    /\ pc = [j \in JobIds |-> "idle"]
    /\ exc = [j \in JobIds |-> Absent]
    /\ result = [j \in JobIds |-> Absent]
    /\ hist = [j \in JobIds |-> << >>]
    /\ lastCall = NoCall
    /\ handle = NoHandle
    /\ hcall = NoHCall
    /\ listing = NoListing
    /\ builder = NewBuilder
    /\ info = NoInfo
    /\ trues = [j \in JobIds |-> 0]
    /\ clone = NoClone
    /\ sync = NoSync

\* --------------------------------------------------------------- submit
\* What the YAML file handed to submit_job holds.
SpecKinds == {"valid", "missing_field", "bad_yaml", "no_file", "empty"}

\* Faulty variant of ValidateYaml: the required fields are not checked.
ValidateYamlLenient(kind) ==
    CASE kind = "valid"         -> "ok"
      [] kind = "missing_field" -> "ok"
      [] kind = "bad_yaml"      -> "ValidationError"
      [] kind = "no_file"       -> "ValidationError"
      [] kind = "empty"         -> "TypeError"

\* validate_yaml: "ok" or the exception it raises.  An empty document loads
\* as None, and `field not in config` on None raises TypeError.
ValidateYaml(kind) ==
    CASE kind = "valid"         -> "ok"
      [] kind = "missing_field" -> "ValidationError"
      [] kind = "bad_yaml"      -> "ValidationError"
      [] kind = "no_file"       -> "ValidationError"
      [] kind = "empty"         -> "TypeError"

\* The body of LocalRunner.submit_job as the call named op sees it: a spec
\* that is accepted gets a record under a fresh id, a thread and a Job
\* object; otherwise the call raises failure and nothing is stored.
SubmitBody(op, accepted, failure) ==
    /\ IF accepted
       THEN LET j == Len(jobs) + 1 IN
            /\ jobs' = Append(jobs, NewJobRecord(j))
            /\ pc' = [pc EXCEPT ![j] = "copy"]
            /\ hist' = [hist EXCEPT ![j] = << SUBMITTED >>]
            /\ lastCall' = [op |-> op, job |-> j, ret |-> "Job",
                            status |-> Present(JobStatusOf(NewJobRecord(j))),
                            before |-> Absent,
                            after |-> Present(NewJobRecord(j))]
            \* return Job(job_id, self, initial_status)
            /\ handle' = IF handle.made THEN handle
                         ELSE NewHandle(j, JobStatusOf(NewJobRecord(j)))
       ELSE /\ lastCall' = [op |-> op, job |-> 0,
                            ret |-> failure, status |-> Absent,
                            before |-> Absent, after |-> Absent]
            /\ UNCHANGED <<jobs, pc, hist, handle>>
    /\ UNCHANGED <<exc, result, hcall, listing>>

\* submit_job: validate, store the record under a fresh id, start the thread.
SubmitJob(kind) ==
    /\ Len(jobs) < MaxJobs
    /\ SubmitBody("submit_job", ValidateYaml(kind) = "ok", ValidateYaml(kind))
    /\ UNCHANGED <<builder, info, trues, clone, sync>>

\* ------------------------------------------------------- QETLClient
\* Faulty variant of ClientSubmitRet: the backend's exception passes through.
ClientSubmitRetUnwrapped(kind) ==
    IF kind = "no_file" THEN "QETLError"
    ELSE IF ValidateYaml(kind) = "ok" THEN "Job" ELSE ValidateYaml(kind)

\* What QETLClient.submit_job returns or raises: QETLError when the path
\* does not exist, the backend's Job, or QETLError("Job submission failed")
\* wrapped around whatever exception the backend raised.
ClientSubmitRet(kind) ==
    IF kind = "no_file" THEN "QETLError"
    ELSE IF ValidateYaml(kind) = "ok" THEN "Job" ELSE "QETLError"

\* QETLClient.submit_job(yaml_file).
ClientSubmitJob(kind) ==
    /\ Len(jobs) < MaxJobs
    /\ SubmitBody("client.submit_job", ClientSubmitRet(kind) = "Job",
                  ClientSubmitRet(kind))
    /\ UNCHANGED <<builder, info, trues, clone, sync>>

\* ------------------------------------------------------- JobBuilder calls
\* set_name(name)
SetName(name) ==
    /\ builder.pc = "idle"
    /\ builder' = [builder EXCEPT !.config.pipeline_name = name,
                                  !.op = "set_name", !.ret = "JobBuilder",
                                  !.errors = << >>]
    /\ UNCHANGED <<jobs, pc, exc, result, hist, lastCall, handle, hcall,
                   listing, info, trues, clone, sync>>

\* add_input_source(name, path)
AddInputSource ==
    /\ builder.pc = "idle"
    /\ Len(builder.config.input_sources) < MaxInputs
    /\ builder' = [builder EXCEPT
                      !.config.input_sources = Append(@, [name |-> "src"]),
                      !.op = "add_input_source", !.ret = "JobBuilder",
                      !.errors = << >>]
    /\ UNCHANGED <<jobs, pc, exc, result, hist, lastCall, handle, hcall,
                   listing, info, trues, clone, sync>>

\* add_transformation(component, config, name, dependencies)
AddTransformation(a) ==
    /\ builder.pc = "idle"
    /\ Len(builder.config.transformations) < MaxTransformations
    /\ builder' = [builder EXCEPT
                      !.config.transformations =
                          Append(@, NewTransformation(a)),
                      !.op = "add_transformation", !.ret = "JobBuilder",
                      !.errors = << >>]
    /\ UNCHANGED <<jobs, pc, exc, result, hist, lastCall, handle, hcall,
                   listing, info, trues, clone, sync>>

\* validate()
BuilderValidate ==
    /\ builder.pc = "idle"
    /\ builder' = [builder EXCEPT
                      !.op = "validate",
                      !.ret = ValidateRet(builder.config),
                      !.errors = IF ValidateRaises(ValidateErrors(builder.config))
                                 THEN ValidateErrors(builder.config)
                                 ELSE << >>]
    /\ UNCHANGED <<jobs, pc, exc, result, hist, lastCall, handle, hcall,
                   listing, info, trues, clone, sync>>

\* submit() up to the return of client.submit_job: validate, write the
\* configuration to a temporary YAML file (it holds the three required
\* fields), hand the file to client.submit_job.  The job to return is
\* known; the finally block has still to run.
BuilderSubmit ==
    /\ builder.pc = "idle"
    /\ LET errors == ValidateErrors(builder.config) IN
       IF ValidateRaises(errors)
       THEN /\ builder' = [builder EXCEPT !.op = "submit",
                                          !.ret = "ValidationError",
                                          !.errors = errors, !.job = 0]
            /\ UNCHANGED <<jobs, pc, exc, result, hist, lastCall, handle,
                           hcall, listing, info, trues, clone, sync>>
       ELSE /\ Len(jobs) < MaxJobs
            /\ SubmitBody("client.submit_job",
                          ClientSubmitRet("valid") = "Job",
                          ClientSubmitRet("valid"))
            /\ builder' = [builder EXCEPT !.op = "submit",
                                          !.ret = lastCall'.ret,
                                          !.errors = << >>,
                                          !.job = lastCall'.job,
                                          !.calls = @ + 1,
                                          !.pc = "unlink",
                                          !.tmp = "exists",
                                          !.tmpjob = lastCall'.job]
            /\ UNCHANGED <<info, trues, clone, sync>>

\* finally: temp_yaml_path.unlink(), after which submit returns the job.
BuilderUnlink ==
    /\ builder.pc = "unlink"
    /\ builder' = [builder EXCEPT !.pc = "idle", !.tmp = "removed"]
    /\ UNCHANGED <<jobs, pc, exc, result, hist, lastCall, handle, hcall,
                   listing, info, trues, clone, sync>>

\* ------------------------------------------------------ JobBuilder.clone
\* new_builder._config = self._config.copy(): a new dictionary holding the
\* same values.  The pipeline name is an immutable string the clone can
\* replace for itself; "input_sources" and "transformations" are the list
\* objects of the original, kept in builder.config, which both dictionaries
\* refer to from then on.
CopyConfig(c) == [made |-> TRUE, pipeline_name |-> c.pipeline_name]

\* The configuration the clone shows: its own name and the contents of the
\* list objects it refers to.
CloneConfig ==
    [pipeline_name   |-> clone.pipeline_name,
     input_sources   |-> builder.config.input_sources,
     transformations |-> builder.config.transformations]

\* clone()
BuilderClone ==
    /\ ~clone.made
    /\ clone' = CopyConfig(builder.config)
    /\ UNCHANGED <<jobs, pc, exc, result, hist, lastCall, handle, hcall,
                   listing, builder, info, trues, sync>>

\* set_name(name) on the clone: the entry of its own dictionary is replaced.
CloneSetName(name) ==
    /\ clone.made
    /\ clone' = [clone EXCEPT !.pipeline_name = name]
    /\ UNCHANGED <<jobs, pc, exc, result, hist, lastCall, handle, hcall,
                   listing, builder, info, trues, sync>>

\* add_input_source(name, path) on the clone:
\* self._config["input_sources"].append(source) appends to the list object.
CloneAddInputSource ==
    /\ clone.made
    /\ Len(builder.config.input_sources) < MaxInputs
    /\ builder' = [builder EXCEPT
                      !.config.input_sources = Append(@, [name |-> "src"])]
    /\ UNCHANGED <<jobs, pc, exc, result, hist, lastCall, handle, hcall,
                   listing, info, trues, clone, sync>>

\* add_transformation(...) on the clone.
CloneAddTransformation(a) ==
    /\ clone.made
    /\ Len(builder.config.transformations) < MaxTransformations
    /\ builder' = [builder EXCEPT
                      !.config.transformations =
                          Append(@, NewTransformation(a))]
    /\ UNCHANGED <<jobs, pc, exc, result, hist, lastCall, handle, hcall,
                   listing, info, trues, clone, sync>>

\* --------------------------------------------------------------- runner
\* with self._job_lock: job_data = self.jobs[job_id].copy()
RunnerCopyBody(j) ==
    /\ pc[j] = "copy"
    /\ pc' = [pc EXCEPT ![j] = NextPc("copy")]
    /\ UNCHANGED <<jobs, exc, result, hist, lastCall, handle, hcall, listing, builder, info, trues, clone>>

\* RunnerCopy as one step: the lock is taken and released within it.
RunnerCopy(j) == RunnerCopyBody(j) /\ UNCHANGED sync

\* One of the six _update_job_status calls of the try block.
RunnerUpdateBody(j) ==
    /\ pc[j] \in UpdatePcs
    /\ \E o \in UpdateOutcomes(pc[j]) :
         IF o = "ok"
         THEN /\ jobs' = UpdateJobStatus(jobs, j, StepState(pc[j]),
                                         StepProgress(pc[j]), StepMessage(pc[j]))
              /\ hist' = [hist EXCEPT ![j] = Append(@, StepState(pc[j]))]
              /\ pc' = [pc EXCEPT ![j] = NextPc(pc[j])]
              /\ UNCHANGED exc
         ELSE /\ pc' = [pc EXCEPT ![j] = ExceptPc]
              /\ exc' = [exc EXCEPT ![j] = Present([type |-> o, message |-> o])]
              /\ UNCHANGED <<jobs, hist>>
    /\ UNCHANGED <<result, lastCall, handle, hcall, listing, builder, info, trues, clone>>

\* RunnerUpdate as one step: the lock is taken and released within it.
RunnerUpdate(j) == RunnerUpdateBody(j) /\ UNCHANGED sync

\* Outcomes of the open for job j: a file the builder has unlinked cannot
\* be opened.
LoadOutcomesFor(j) ==
    IF builder.tmpjob = j /\ builder.tmp = "removed"
    THEN {"FileNotFoundError"}
    ELSE LoadOutcomes

\* with open(yaml_path) as f: config = yaml.safe_load(f)
RunnerLoad(j) ==
    /\ pc[j] = "load"
    /\ \E o \in LoadOutcomesFor(j) :
         IF o = "ok"
         THEN /\ pc' = [pc EXCEPT ![j] = NextPc("load")]
              /\ UNCHANGED exc
         ELSE /\ pc' = [pc EXCEPT ![j] = ExceptPc]
              /\ exc' = [exc EXCEPT ![j] = Present([type |-> o, message |-> o])]
    /\ UNCHANGED <<jobs, result, hist, lastCall, handle, hcall, listing, builder, info, trues, clone, sync>>

\* result = self._run_yaml_pipeline(yaml_path, job_id)
RunnerExec(j) ==
    /\ pc[j] = "exec"
    /\ \E o \in ExecOutcomes :
         IF o = "success"
         THEN /\ pc' = [pc EXCEPT ![j] = NextPc("exec")]
              /\ result' = [result EXCEPT ![j] = Present([job_id |-> j])]
              /\ UNCHANGED exc
         ELSE /\ pc' = [pc EXCEPT ![j] = ExceptPc]
              /\ exc' = [exc EXCEPT ![j] =
                            Present([type |-> "JobExecutionError",
                                     message |-> PipelineErrorMessage(o)])]
              /\ UNCHANGED result
    /\ UNCHANGED <<jobs, hist, lastCall, handle, hcall, listing, builder, info, trues, clone, sync>>

\* with self._job_lock: self.jobs[job_id]["results"] = job_results
RunnerStoreResultsBody(j) ==
    /\ pc[j] = "store_results"
    /\ jobs' = [jobs EXCEPT ![j].results = result[j]]
    /\ pc' = [pc EXCEPT ![j] = NextPc("store_results")]
    /\ UNCHANGED <<exc, result, hist, lastCall, handle, hcall, listing, builder, info, trues, clone>>

\* RunnerStoreResults as one step: the lock is taken and released within it.
RunnerStoreResults(j) == RunnerStoreResultsBody(j) /\ UNCHANGED sync

\* except Exception as e: self._update_job_status(job_id, FAILED, None, str(e))
RunnerFailBody(j) ==
    /\ pc[j] = "fail_status"
    /\ jobs' = UpdateJobStatus(jobs, j, FAILED, NoProgress, exc[j][1].message)
    /\ hist' = [hist EXCEPT ![j] = Append(@, FAILED)]
    /\ pc' = [pc EXCEPT ![j] = NextPc("fail_status")]
    /\ UNCHANGED <<exc, result, lastCall, handle, hcall, listing, builder, info, trues, clone>>

\* RunnerFail as one step: the lock is taken and released within it.
RunnerFail(j) == RunnerFailBody(j) /\ UNCHANGED sync

\* The dictionary stored under "error": type(e).__name__, str(e) and the
\* time of the store (logical time: the writes made to the record so far).
ErrorRecord(e, now) ==
    [type |-> e.type, message |-> e.message, timestamp |-> now]

\* with self._job_lock: self.jobs[job_id]["error"] = {...}
RunnerStoreErrorBody(j) ==
    /\ pc[j] = "store_error"
    /\ jobs' = [jobs EXCEPT ![j].error = Present(ErrorRecord(exc[j][1], jobs[j].updated_at))]
    /\ pc' = [pc EXCEPT ![j] = NextPc("store_error")]
    /\ UNCHANGED <<exc, result, hist, lastCall, handle, hcall, listing, builder, info, trues, clone>>

\* RunnerStoreError as one step: the lock is taken and released within it.
RunnerStoreError(j) == RunnerStoreErrorBody(j) /\ UNCHANGED sync

RunnerStep(j) ==
    \/ RunnerCopy(j)
    \/ RunnerUpdate(j)
    \/ RunnerLoad(j)
    \/ RunnerExec(j)
    \/ RunnerStoreResults(j)
    \/ RunnerFail(j)
    \/ RunnerStoreError(j)

\* -------------------------------------------------------------- clients
\* Job.cancel on a handle of job j (handles exist for stored jobs only).
CancelBody(j) ==
    /\ j \in DOMAIN jobs
    /\ jobs' = CancelJobTable(jobs, j)
    /\ hist' = [hist EXCEPT ![j] =
                   IF CancelJobRet(jobs, j) = "True"
                   THEN Append(@, CANCELLED) ELSE @]
    /\ lastCall' = [op |-> "cancel", job |-> j, ret |-> JobCancelRet(jobs, j),
                    status |-> Absent,
                    before |-> Lookup(jobs, j),
                    after |-> Lookup(CancelJobTable(jobs, j), j)]
    \* self._status = None, reached only when cancel_job returns
    /\ handle' = IF handle.made /\ handle.job = j
                    /\ CancelJobRet(jobs, j) \in {"True", "False"}
                 THEN [handle EXCEPT !.status = Absent]
                 ELSE handle
    /\ trues' = [trues EXCEPT ![j] =
                    IF JobCancelRet(jobs, j) = "True" THEN @ + 1 ELSE @]
    /\ UNCHANGED <<pc, exc, result, hcall, listing, builder, info, clone>>

\* Cancel as one step: the lock is taken and released within it.
Cancel(j) == CancelBody(j) /\ UNCHANGED sync

\* get_job_status for a stored job.
GetJobStatusBody(j) ==
    /\ j \in DOMAIN jobs
    /\ lastCall' = [op |-> "get_job_status", job |-> j, ret |-> "JobStatus",
                    status |-> Present(JobStatusOf(jobs[j])),
                    before |-> Absent, after |-> Absent]
    /\ UNCHANGED <<jobs, pc, exc, result, hist, handle, hcall, listing, builder, info, trues, clone>>

\* GetJobStatus as one step: the lock is taken and released within it.
GetJobStatus(j) == GetJobStatusBody(j) /\ UNCHANGED sync

\* get_job_results for a stored job.
GetJobResults(j) ==
    /\ j \in DOMAIN jobs
    /\ lastCall' = [op |-> "get_job_results", job |-> j,
                    ret |-> IF jobs[j].results = Absent
                            THEN "QETLError" ELSE "JobResults",
                    status |-> Absent, before |-> Absent, after |-> Absent]
    /\ UNCHANGED <<jobs, pc, exc, result, hist, handle, hcall, listing, builder, info, trues, clone, sync>>

\* The list get_job_logs returns for a record: the logs of the stored
\* results (the executor's stdout), or the record's message alone.
JobLogsOf(rec) ==
    IF rec.results # Absent THEN << "stdout" >> ELSE << rec.message >>

\* get_job_logs(job_id, follow) for a stored job: one critical section that
\* returns a list; follow is not read.
GetJobLogs(j, follow) ==
    /\ j \in DOMAIN jobs
    /\ lastCall' = [op |-> "get_job_logs", job |-> j, ret |-> "List",
                    status |-> Present(JobStatusOf(jobs[j])),
                    before |-> Absent,
                    after |-> Present([logs |-> JobLogsOf(jobs[j]),
                                       follow |-> follow])]
    /\ UNCHANGED <<jobs, pc, exc, result, hist, handle, hcall, listing, builder, info, trues, clone, sync>>

\* len([j for j in self.jobs.values() if not j["status"].is_terminal]):
\* whether the comprehension raises, and the count it gives otherwise.
ActiveJobs(tbl) ==
    IF \E j \in DOMAIN tbl : StatusIsTerminal(tbl[j].status) = "AttributeError"
    THEN [raised |-> TRUE, n |-> 0]
    ELSE [raised |-> FALSE,
          n |-> Cardinality({j \in DOMAIN tbl :
                                StatusIsTerminal(tbl[j].status) = "False"})]

\* get_instance_info, the "active_jobs" entry of the dictionary: self.jobs
\* is read without _job_lock.
InfoActive ==
    /\ info.pc = "idle"
    /\ info' = IF ActiveJobs(jobs).raised
               THEN [pc |-> "idle", active |-> 0, total |-> 0,
                     ret |-> "AttributeError"]
               ELSE [pc |-> "total", active |-> ActiveJobs(jobs).n,
                     total |-> 0, ret |-> "none"]
    /\ UNCHANGED <<jobs, pc, exc, result, hist, lastCall, handle, hcall,
                   listing, builder, trues, clone, sync>>

\* get_instance_info, the "total_jobs" entry: len(self.jobs), read without
\* _job_lock; the dictionary is returned.
InfoTotal ==
    /\ info.pc = "total"
    /\ info' = [info EXCEPT !.pc = "idle", !.total = Len(jobs),
                            !.ret = "dict"]
    /\ UNCHANGED <<jobs, pc, exc, result, hist, lastCall, handle, hcall,
                   listing, builder, trues, clone, sync>>

\* The backend calls that take a job id.
IdOps == {"get_job_status", "get_job", "get_job_results", "get_job_logs",
          "cancel_job"}

\* What a backend call returns or raises for a job id that is not a key of
\* self.jobs: the four readers raise QETLError("Job not found: ..."),
\* cancel_job returns False.
UnknownIdRet(tbl, op, j) ==
    IF op = "cancel_job" THEN CancelJobRet(tbl, j) ELSE "QETLError"

\* A backend call with a job id that is not in the table.
UnknownIdCall(op, j) ==
    /\ j \notin DOMAIN jobs
    /\ jobs' = IF op = "cancel_job" THEN CancelJobTable(jobs, j) ELSE jobs
    /\ lastCall' = [op |-> op, job |-> j, ret |-> UnknownIdRet(jobs, op, j),
                    status |-> Absent, before |-> Lookup(jobs, j),
                    after |-> Absent]
    /\ UNCHANGED <<pc, exc, result, hist, handle, hcall, listing, builder, info, trues, clone, sync>>

\* list_jobs(status, limit): one critical section of _job_lock.
ListJobsBody(status, limit) ==
    /\ listing' = [status |-> status, limit |-> limit,
                   ret |-> ListJobsRet(jobs, status, limit), made |-> TRUE]
    /\ UNCHANGED <<jobs, pc, exc, result, hist, lastCall, handle, hcall,
                   builder, info, trues, clone>>

\* ListJobs as one step: the lock is taken and released within it.
ListJobs(status, limit) == ListJobsBody(status, limit) /\ UNCHANGED sync

Next ==
    \/ \E kind \in SpecKinds : SubmitJob(kind)
    \/ \E j \in JobIds : RunnerStep(j)
    \/ \E j \in JobIds : Cancel(j)
    \/ \E j \in JobIds : GetJobStatus(j)
    \/ \E j \in JobIds : GetJobResults(j)

Spec == Init /\ [][Next]_vars

\* Thread scheduling is fair: a runner thread that can take a step does.
LiveSpec == Spec /\ \A j \in JobIds : WF_vars(RunnerStep(j))

\* -------------------------------------------------------- handle calls
\* job.get_status(), possibly from a monitoring thread while another thread
\* waits in get_results.
HGetStatus ==
    /\ handle.made
    /\ handle.refreshes < MaxRefresh
    /\ LET r == GetStatusBody(handle, jobs) IN
       /\ handle' = r.h
       /\ hcall' = [op |-> "get_status", ret |-> r.ret, status |-> CachedState(r.h),
                    value |-> Absent, error |-> Absent]
    /\ UNCHANGED <<jobs, pc, exc, result, hist, lastCall, listing, builder, info, trues, clone, sync>>

\* job.status
HStatus ==
    /\ handle.made
    /\ handle.pc = "idle"
    /\ LET r == StatusProp(handle, jobs) IN
       /\ handle' = r.h
       /\ hcall' = [op |-> "status", ret |-> r.ret, status |-> CachedState(r.h),
                    value |-> Absent, error |-> Absent]
    /\ UNCHANGED <<jobs, pc, exc, result, hist, lastCall, listing, builder, info, trues, clone, sync>>

\* job.on_status_change(cb)
HOnStatusChange(cb) ==
    /\ handle.made
    /\ handle.pc = "idle"
    /\ Len(handle.scbs) + Len(handle.ccbs) < MaxCallbacks
    /\ handle' = [handle EXCEPT
                     !.scbs = Append(@, NewCallback(cb, Len(hist[handle.job]) = 1))]
    /\ hcall' = [op |-> "on_status_change", ret |-> "None",
                 status |-> CachedState(handle),
                 value |-> Absent, error |-> Absent]
    /\ UNCHANGED <<jobs, pc, exc, result, hist, lastCall, listing, builder, info, trues, clone, sync>>

\* job.on_completion(cb): append, then trigger every completion callback if
\* the status property is terminal.
HOnCompletion(cb) ==
    /\ handle.made
    /\ handle.pc = "idle"
    /\ Len(handle.scbs) + Len(handle.ccbs) < MaxCallbacks
    /\ LET h1 == [handle EXCEPT
                     !.ccbs = Append(@, NewCompletionCallback(cb))]
           r  == StatusProp(h1, jobs)
           t  == IF r.h.status # Absent /\ IsTerminal(r.h.status[1])
                 THEN TriggerCompletionCallbacks(r.h, jobs)
                 ELSE [h |-> r.h, escaped |-> FALSE]
       IN /\ handle' = t.h
          /\ hcall' = [op |-> "on_completion",
                       ret |-> IF t.escaped THEN "Exception" ELSE "None",
                       status |-> CachedState(t.h), value |-> Absent,
                       error |-> Absent]
    /\ UNCHANGED <<jobs, pc, exc, result, hist, lastCall, listing, builder, info, trues, clone, sync>>

\* job.get_results() is entered.
HResultsCall ==
    /\ handle.made
    /\ handle.pc = "idle"
    /\ handle.calls < MaxResultsCalls
    /\ handle' = [handle EXCEPT !.pc = "results_check", !.calls = @ + 1]
    /\ UNCHANGED <<jobs, pc, exc, result, hist, lastCall, hcall, listing, builder, info, trues, clone, sync>>

\* while not self.status.is_terminal: the test, and the rest of get_results
\* when the test lets the loop end.
HResultsCheck ==
    /\ handle.pc = "results_check"
    /\ LET r == StatusProp(handle, jobs) IN
       IF r.h.status # Absent /\ IsTerminal(r.h.status[1])
       THEN LET b == GetResultsBody(r.h, jobs) IN
            /\ handle' = [b.h EXCEPT !.pc = "idle"]
            /\ hcall' = [op |-> "get_results", ret |-> b.ret,
                         status |-> CachedState(b.h), value |-> b.value,
                         error |-> b.error]
       ELSE /\ handle' = [r.h EXCEPT !.pc = "results_sleep"]
            /\ UNCHANGED hcall
    /\ UNCHANGED <<jobs, pc, exc, result, hist, lastCall, listing, builder, info, trues, clone, sync>>

\* time.sleep(1) in the loop of get_results.
HResultsSleep ==
    /\ handle.pc = "results_sleep"
    /\ handle' = [handle EXCEPT !.pc = "results_check"]
    /\ UNCHANGED <<jobs, pc, exc, result, hist, lastCall, hcall, listing, builder, info, trues, clone, sync>>

\* Faulty variant of WaitTimeoutTable: the timeout also cancels the job.
WaitTimeoutTableCancelling(tbl, j) ==
    [tbl EXCEPT ![j] = [@ EXCEPT !.status     = CANCELLED,
                                 !.message    = "Job cancelled by user",
                                 !.updated_at = @ + 1]]

\* The job table the timeout branch of wait_until_complete leaves behind:
\* it raises TimeoutError without any call to the backend.
WaitTimeoutTable(tbl, j) == tbl

\* job.wait_until_complete(timeout) is entered: start_time = time.time()
HWaitCall(t) ==
    /\ handle.made
    /\ handle.pc = "idle"
    /\ handle' = [handle EXCEPT !.pc = "wait_check", !.timeout = t]
    /\ UNCHANGED <<jobs, pc, exc, result, hist, lastCall, hcall, listing, builder, info, trues, clone, sync>>

\* while not self.status.is_terminal, and `return self.status` when the
\* test lets the loop end.
HWaitCheck ==
    /\ handle.pc = "wait_check"
    /\ LET r == StatusProp(handle, jobs) IN
       IF r.h.status # Absent /\ IsTerminal(r.h.status[1])
       THEN /\ handle' = [r.h EXCEPT !.pc = "idle"]
            /\ hcall' = [op |-> "wait_until_complete", ret |-> "JobStatus",
                         status |-> CachedState(r.h), value |-> Absent,
                         error |-> Absent]
       ELSE /\ handle' = [r.h EXCEPT !.pc = "wait_timeout"]
            /\ UNCHANGED hcall
    /\ UNCHANGED <<jobs, pc, exc, result, hist, lastCall, listing, builder, info, trues, clone, sync>>

\* if timeout and (time.time() - start_time) > timeout: raise TimeoutError
\* Any amount of time can have passed since start_time.
HWaitTimeout ==
    /\ handle.pc = "wait_timeout"
    /\ \E elapsed \in BOOLEAN :
         IF TimeoutSet(handle.timeout) /\ elapsed
         THEN /\ handle' = [handle EXCEPT !.pc = "idle"]
              /\ hcall' = [op |-> "wait_until_complete",
                           ret |-> "TimeoutError",
                           status |-> CachedState(handle), value |-> Absent,
                           error |-> Present([type |-> "TimeoutError",
                                              message |-> "timed out"])]
              /\ jobs' = WaitTimeoutTable(jobs, handle.job)
         ELSE /\ handle' = [handle EXCEPT !.pc = "wait_sleep"]
              /\ UNCHANGED <<hcall, jobs>>
    /\ UNCHANGED <<pc, exc, result, hist, lastCall, listing, builder, info, trues, clone, sync>>

\* time.sleep(1); self.get_status()
HWaitRefresh ==
    /\ handle.pc = "wait_sleep"
    /\ LET r == GetStatusBody(handle, jobs) IN
       IF r.ret = "JobStatus"
       THEN /\ handle' = [r.h EXCEPT !.pc = "wait_check",
                                     !.refreshes = handle.refreshes]
            /\ UNCHANGED hcall
       ELSE /\ handle' = [r.h EXCEPT !.pc = "idle",
                                     !.refreshes = handle.refreshes]
            /\ hcall' = [op |-> "wait_until_complete", ret |-> r.ret,
                         status |-> CachedState(r.h), value |-> Absent,
                         error |-> Absent]
    /\ UNCHANGED <<jobs, pc, exc, result, hist, lastCall, listing, builder, info, trues, clone, sync>>

\* The first accepted submission, whose Job object the runs below follow.
HSubmit(kind) == ~handle.made /\ SubmitJob(kind)

\* Runs in which callbacks are registered on the Job object and its status
\* is refreshed while the runner thread works.
CallbackNext ==
    \/ \E kind \in SpecKinds : HSubmit(kind)
    \/ \E j \in JobIds : RunnerStep(j)
    \/ HGetStatus
    \/ \E cb \in Callbacks : HOnStatusChange(cb)
    \/ \E cb \in Callbacks : HOnCompletion(cb)

CallbackSpec == Init /\ [][CallbackNext]_vars

\* Runs in which the status and the results are read through the Job object
\* while the runner thread works.
ResultsNext ==
    \/ \E kind \in SpecKinds : HSubmit(kind)
    \/ \E j \in JobIds : RunnerStep(j)
    \/ \E j \in JobIds : Cancel(j)
    \/ HGetStatus
    \/ HStatus
    \/ HResultsCall
    \/ HResultsCheck
    \/ HResultsSleep

ResultsSpec == Init /\ [][ResultsNext]_vars

\* Fair scheduling of the runner threads and of the thread that is inside
\* get_results; nothing obliges any thread to call get_status.
ResultsLiveSpec ==
    /\ ResultsSpec
    /\ \A j \in JobIds : WF_vars(RunnerStep(j))
    /\ WF_vars(HResultsCheck \/ HResultsSleep)

\* Runs in which a client waits on the Job object while the runner thread
\* works.
WaitNext ==
    \/ \E kind \in SpecKinds : HSubmit(kind)
    \/ \E j \in JobIds : RunnerStep(j)
    \/ \E t \in Timeouts : HWaitCall(t)
    \/ HWaitCheck
    \/ HWaitTimeout
    \/ HWaitRefresh

WaitSpec == Init /\ [][WaitNext]_vars

\* Fair scheduling of the runner threads.
WaitLiveSpec == WaitSpec /\ \A j \in JobIds : WF_vars(RunnerStep(j))

\* Runs in which the job table is listed while jobs are submitted and run.
ListNext ==
    \/ \E kind \in SpecKinds : SubmitJob(kind)
    \/ \E j \in JobIds : RunnerStep(j)
    \/ \E status \in Filters, limit \in Limits : ListJobs(status, limit)

ListSpec == Init /\ [][ListNext]_vars

\* Runs in which the backend is called with job ids it does not hold while
\* jobs are submitted and run.
LookupNext ==
    \/ \E kind \in SpecKinds : SubmitJob(kind)
    \/ \E j \in JobIds : RunnerStep(j)
    \/ \E op \in IdOps, j \in JobIds : UnknownIdCall(op, j)

LookupSpec == Init /\ [][LookupNext]_vars

\* Runs in which the logs of jobs are requested while they run.
LogsNext ==
    \/ \E kind \in SpecKinds : SubmitJob(kind)
    \/ \E j \in JobIds : RunnerStep(j)
    \/ \E j \in JobIds, follow \in BOOLEAN : GetJobLogs(j, follow)

LogsSpec == Init /\ [][LogsNext]_vars

\* Runs in which get_instance_info is called while jobs are submitted and
\* run.
InfoNext ==
    \/ \E kind \in SpecKinds : SubmitJob(kind)
    \/ \E j \in JobIds : RunnerStep(j)
    \/ InfoActive
    \/ InfoTotal

InfoSpec == Init /\ [][InfoNext]_vars

\* Runs in which a builder is cloned and both builders are configured
\* further.
CloneNext ==
    \/ \E name \in PipelineNames : SetName(name)
    \/ AddInputSource
    \/ \E a \in TransformationArgs : AddTransformation(a)
    \/ BuilderClone
    \/ \E name \in PipelineNames : CloneSetName(name)
    \/ CloneAddInputSource
    \/ \E a \in TransformationArgs : CloneAddTransformation(a)

CloneSpec == Init /\ [][CloneNext]_vars

\* submit() on a builder that has not submitted a job yet.
BuilderSubmitOnce == builder.calls = 0 /\ BuilderSubmit

\* Runs in which one builder is configured and submitted once while the
\* runner thread of its job runs.
TempFileNext ==
    \/ AddInputSource
    \/ \E a \in TransformationArgs : AddTransformation(a)
    \/ BuilderSubmitOnce
    \/ BuilderUnlink
    \/ \E j \in JobIds : RunnerStep(j)

TempFileSpec == Init /\ [][TempFileNext]_vars

\* ---------------------------------------------------------- _job_lock
\* The positions of _execute_job that are inside "with self._job_lock": the
\* copy of the record, every _update_job_status, the store of the results and
\* the store of the error.  The file is opened and the executor is called
\* outside of it.
LockedPcsWithExec ==
    {"copy", "store_results", "fail_status", "store_error", "exec"} \cup UpdatePcs

LockedPcs ==
    {"copy", "store_results", "fail_status", "store_error"} \cup UpdatePcs

\* with self._job_lock, entered by the thread of job j.
RunnerAcquire(j) ==
    /\ j \in DOMAIN jobs
    /\ pc[j] \in LockedPcs
    /\ sync.holder = Free
    /\ sync' = [sync EXCEPT !.holder = j]
    /\ UNCHANGED <<jobs, pc, exc, result, hist, lastCall, handle, hcall,
                   listing, builder, info, trues, clone>>

\* The body of the with block of the thread of job j, and the release at
\* its end.
RunnerSection(j) ==
    /\ sync.holder = j
    /\ \/ RunnerCopyBody(j)
       \/ RunnerUpdateBody(j)
       \/ RunnerStoreResultsBody(j)
       \/ RunnerFailBody(j)
       \/ RunnerStoreErrorBody(j)
    /\ sync' = [sync EXCEPT !.holder = Free]

\* The steps of _execute_job outside of every with block.
RunnerUnlocked(j) == RunnerLoad(j) \/ RunnerExec(j)

\* The number of calls, other than submit_job, that the client thread makes
\* in a run.
MaxClientCalls == 1

\* The calls of the client thread that take the lock.
LockOps == {"submit_job", "get_job_status", "cancel_job", "list_jobs",
            "get_status"}

\* The client thread calls op: submit_job has validated its file,
\* get_job_status and cancel_job are given a stored id, get_status is called
\* on the Job object.
ClientCall(op) ==
    /\ sync.cpc = "idle"
    /\ info.pc = "idle"
    /\ op = "submit_job" => Len(jobs) < MaxJobs
    /\ op # "submit_job" => sync.calls < MaxClientCalls
    /\ op \in {"get_job_status", "cancel_job"} => jobs # << >>
    /\ op = "get_status" => handle.made /\ handle.refreshes < MaxRefresh
    /\ sync' = [sync EXCEPT !.cpc = "acquire", !.cop = op,
                            !.calls = IF op = "submit_job" THEN @ ELSE @ + 1]
    /\ UNCHANGED <<jobs, pc, exc, result, hist, lastCall, handle, hcall,
                   listing, builder, info, trues, clone>>

\* with self._job_lock, entered by the client thread.
ClientAcquire ==
    /\ sync.cpc = "acquire"
    /\ sync.holder = Free
    /\ sync' = [sync EXCEPT !.holder = ClientThread, !.cpc = "section"]
    /\ UNCHANGED <<jobs, pc, exc, result, hist, lastCall, handle, hcall,
                   listing, builder, info, trues, clone>>

\* The body of the with block of the client's call and the release at its
\* end, by return or by exception.  get_status keeps the record it read and
\* goes on to its callbacks.
ClientSection ==
    /\ sync.cpc = "section"
    /\ sync.holder = ClientThread
    /\ \/ /\ sync.cop = "submit_job"
          /\ SubmitBody("submit_job", TRUE, "none")
          /\ UNCHANGED <<builder, info, trues, clone>>
          /\ sync' = [sync EXCEPT !.holder = Free, !.cpc = "idle"]
       \/ /\ sync.cop = "get_job_status"
          /\ \E j \in JobIds : GetJobStatusBody(j)
          /\ sync' = [sync EXCEPT !.holder = Free, !.cpc = "idle"]
       \/ /\ sync.cop = "cancel_job"
          /\ \E j \in JobIds : CancelBody(j)
          /\ sync' = [sync EXCEPT !.holder = Free, !.cpc = "idle"]
       \/ /\ sync.cop = "list_jobs"
          /\ \E limit \in Limits : ListJobsBody(NoFilter, limit)
          /\ sync' = [sync EXCEPT !.holder = Free, !.cpc = "idle"]
       \/ /\ sync.cop = "get_status"
          /\ sync' = [sync EXCEPT !.holder = Free, !.cpc = "callbacks",
                                  !.snap = Present(jobs[handle.job])]
          /\ UNCHANGED <<jobs, pc, exc, result, hist, lastCall, handle,
                         hcall, listing, builder, info, trues, clone>>

\* Job.get_status after the backend call has returned: the status read is
\* cached and the callbacks are called.
ClientCallbacks ==
    /\ sync.cpc = "callbacks"
    /\ LET r == GetStatusBody(handle,
                              [jobs EXCEPT ![handle.job] = sync.snap[1]]) IN
       /\ handle' = r.h
       /\ hcall' = [op |-> "get_status", ret |-> r.ret,
                    status |-> CachedState(r.h),
                    value |-> Absent, error |-> Absent]
    /\ sync' = [sync EXCEPT !.cpc = "idle", !.snap = Absent]
    /\ UNCHANGED <<jobs, pc, exc, result, hist, lastCall, listing, builder,
                   info, trues, clone>>

\* on_status_change between two calls of the client thread; the callback
\* returns when it is called.
ClientOnStatusChange == sync.cpc = "idle" /\ HOnStatusChange("ok")

\* get_instance_info, called between two calls of the client thread: its two
\* reads of self.jobs.
ClientInfoActive == sync.cpc = "idle" /\ InfoActive

ClientInfoTotal == sync.cpc = "idle" /\ InfoTotal

\* Runs in which every entry into and exit from a with block is a step of
\* its own: the runner threads and one client thread compete for the lock.
LockNext ==
    \/ \E j \in JobIds : RunnerAcquire(j)
    \/ \E j \in JobIds : RunnerSection(j)
    \/ \E j \in JobIds : RunnerUnlocked(j)
    \/ \E op \in LockOps : ClientCall(op)
    \/ ClientAcquire
    \/ ClientSection
    \/ ClientCallbacks
    \/ ClientOnStatusChange

LockSpec == Init /\ [][LockNext]_vars

\* A thread that can enter, run or leave a with block does, and a callback
\* returns; the executor may run for ever.
LockLiveSpec ==
    /\ LockSpec
    /\ \A j \in JobIds : WF_vars(RunnerAcquire(j)) /\ WF_vars(RunnerSection(j))
    /\ WF_vars(ClientAcquire)
    /\ WF_vars(ClientSection)
    /\ WF_vars(ClientCallbacks)

\* Runs in which get_instance_info is called while the runner threads and
\* submit_job take and release the lock.
InfoLockNext ==
    \/ \E j \in JobIds : RunnerAcquire(j)
    \/ \E j \in JobIds : RunnerSection(j)
    \/ \E j \in JobIds : RunnerUnlocked(j)
    \/ ClientCall("submit_job")
    \/ ClientAcquire
    \/ ClientSection
    \/ ClientInfoActive
    \/ ClientInfoTotal

InfoLockSpec == Init /\ [][InfoLockNext]_vars

\* Runs in which specs of every kind are submitted through the client
\* while jobs run.
ClientNext ==
    \/ \E kind \in SpecKinds : ClientSubmitJob(kind)
    \/ \E j \in JobIds : RunnerStep(j)

ClientSpec == Init /\ [][ClientNext]_vars

\* Runs in which one builder is configured, validated and submitted in any
\* order.
BuilderNext ==
    \/ \E name \in PipelineNames : SetName(name)
    \/ AddInputSource
    \/ \E a \in TransformationArgs : AddTransformation(a)
    \/ BuilderValidate
    \/ BuilderSubmit
    \/ BuilderUnlink

BuilderSpec == Init /\ [][BuilderNext]_vars

\* ------------------------------------------------------------ properties
\* The happy-path order of JobState.
Canonical == << SUBMITTED, VALIDATING, QUEUED, INITIALIZING, RUNNING,
                COMPLETING, COMPLETED >>

IsPrefix(s, t) ==
    /\ Len(s) <= Len(t)
    /\ \A i \in 1..Len(s) : s[i] = t[i]

Last(s) == s[Len(s)]

Front(s) == SubSeq(s, 1, Len(s) - 1)

TerminalWrites(s) == Cardinality({i \in 1..Len(s) : s[i] \in TerminalStates})

Stored(j) == j \in DOMAIN jobs

\* C1: once the stored state of a job is COMPLETED, FAILED or CANCELLED, no
\* step of the runner or of a cancel call changes it.
C1_TerminalAbsorbing ==
    [][\A j \in DOMAIN jobs :
          jobs[j].status \in TerminalStates
              => jobs'[j].status = jobs[j].status]_vars

\* A job is terminal and a cancel call on it has just come back.
C1_Witness ==
    /\ lastCall.op = "cancel"
    /\ jobs[lastCall.job].status \in TerminalStates
    /\ lastCall.before[1].status \in TerminalStates

\* C2: an accepted job is stored as SUBMITTED and writes at most one
\* terminal state, and under fair scheduling the run reaches a point from
\* which every accepted job has a terminal stored state (a job is accepted
\* as SUBMITTED, so none is accepted after that point).
C2_EventuallyOneTerminal ==
    /\ [](\A j \in DOMAIN jobs : /\ hist[j][1] = SUBMITTED
                                 /\ TerminalWrites(hist[j]) <= 1)
    /\ <>[](\A j \in DOMAIN jobs : jobs[j].status \in TerminalStates)

\* A job has run to the end of its runner and is terminal.
C2_Witness ==
    \E j \in DOMAIN jobs :
        /\ pc[j] = "done"
        /\ jobs[j].status \in TerminalStates
        /\ hist[j][1] = SUBMITTED
        /\ TerminalWrites(hist[j]) = 1

\* C3: the states written to a job's record form a prefix of the canonical
\* sequence, or such a prefix of non-terminal states closed by one FAILED or
\* CANCELLED; the record holds the last state written.
C3_CanonicalPrefix ==
    \A j \in DOMAIN jobs :
        /\ jobs[j].status = Last(hist[j])
        /\ \/ IsPrefix(hist[j], Canonical)
           \/ /\ Last(hist[j]) \in {FAILED, CANCELLED}
              /\ IsPrefix(Front(hist[j]), Front(Canonical))

\* A job failed in the executor after a cancel call was made on it while it
\* was running.
C3_Witness ==
    /\ lastCall.op = "cancel"
    /\ lastCall.before[1].status = RUNNING
    /\ hist[lastCall.job] = << SUBMITTED, VALIDATING, QUEUED, INITIALIZING,
                               RUNNING, FAILED >>

\* C4: cancel() on a job whose stored state is non-terminal returns true and
\* leaves the stored state CANCELLED.
C4_CancelNonTerminalReturnsTrue ==
    (lastCall.op = "cancel" /\ lastCall.before[1].status \notin TerminalStates)
        => /\ lastCall.ret = "True"
           /\ lastCall.after[1].status = CANCELLED

\* C5: after a cancel() made while the stored state was RUNNING, once the
\* runner has finished the stored state is CANCELLED, CANCELLED is the write
\* that followed RUNNING, no results are stored and the message that
\* results() reports is the cancellation.
C5_CancelWhileRunningEndsCancelled ==
    (/\ lastCall.op = "cancel"
     /\ lastCall.before[1].status = RUNNING
     /\ pc[lastCall.job] = "done")
        => /\ jobs[lastCall.job].status = CANCELLED
           /\ hist[lastCall.job] = << SUBMITTED, VALIDATING, QUEUED,
                                      INITIALIZING, RUNNING, CANCELLED >>
           /\ jobs[lastCall.job].results = Absent
           /\ jobs[lastCall.job].message = "Job cancelled by user"

\* C6: cancel() on a job whose stored state is terminal returns false and
\* leaves the whole record as it was.
C6_CancelTerminalReturnsFalse ==
    (lastCall.op = "cancel" /\ lastCall.before[1].status \in TerminalStates)
        => /\ lastCall.ret = "False"
           /\ lastCall.after = lastCall.before

\* C7: no job record holds both results and error.
C7_ResultsErrorExclusive ==
    \A j \in DOMAIN jobs :
        ~(jobs[j].results # Absent /\ jobs[j].error # Absent)

\* One job holds results, another one holds an error.
C7_Witness ==
    /\ \E j \in DOMAIN jobs : jobs[j].results # Absent
    /\ \E j \in DOMAIN jobs : jobs[j].error # Absent

\* C8: a record whose state is non-terminal holds neither results nor error,
\* and results are held only by a record whose state is COMPLETED.
C8_NoPayloadWhileNonTerminal ==
    \A j \in DOMAIN jobs :
        /\ jobs[j].status \notin TerminalStates
               => (jobs[j].results = Absent /\ jobs[j].error = Absent)
        /\ jobs[j].results # Absent => jobs[j].status = COMPLETED

\* C9: no state of the job table shows a job FAILED without its error.
C9_FailedHasError ==
    \A j \in DOMAIN jobs :
        jobs[j].status = FAILED => jobs[j].error # Absent

\* C10: while a job is non-terminal its stored progress never decreases from
\* one step to the next, and of two successive get_job_status results for
\* the same job, both non-terminal, the later progress is not the smaller.
C10_ProgressNonDecreasing ==
    [][/\ \A j \in DOMAIN jobs :
            (jobs[j].status \notin TerminalStates
             /\ jobs'[j].status \notin TerminalStates)
                => jobs'[j].progress >= jobs[j].progress
       /\ (/\ lastCall.op = "get_job_status"
           /\ lastCall'.op = "get_job_status"
           /\ lastCall'.job = lastCall.job
           /\ lastCall.status[1].state \notin TerminalStates
           /\ lastCall'.status[1].state \notin TerminalStates)
              => lastCall'.status[1].progress >= lastCall.status[1].progress]_vars

\* A reader has observed a job in COMPLETING with progress 90.
C10_Witness ==
    /\ lastCall.op = "get_job_status"
    /\ lastCall.status[1].state = COMPLETING
    /\ lastCall.status[1].progress = 90

\* C11: a job that failed after it had reached RUNNING keeps progress 40 in
\* its FAILED record; the progress of a FAILED record is unset only when the
\* job never reached RUNNING.
C11_FailedKeepsProgress ==
    \A j \in DOMAIN jobs :
        jobs[j].status = FAILED
            => IF \E i \in 1..Len(hist[j]) : hist[j][i] = RUNNING
               THEN jobs[j].progress = 40
               ELSE jobs[j].progress = NoProgress

\* C12: the error stored for an executor that timed out has the SDK's
\* timeout kind (TimeoutError), and the error stored for an executor that
\* exited non-zero or raised has its execution-failure kind
\* (JobExecutionError).
C12_TimeoutKindStored ==
    \A j \in DOMAIN jobs :
        (jobs[j].error # Absent /\ hist[j][Len(hist[j]) - 1] = RUNNING)
            => IF exc[j][1].message = PipelineErrorMessage("timeout")
               THEN jobs[j].error[1].type = "TimeoutError"
               ELSE jobs[j].error[1].type = "JobExecutionError"

\* ------------------------------------------------- Job handle properties
\* C13: a status callback registered on the handle while the job's record
\* still held the submitted state has been called with exactly the states
\* the record was given afterwards, one call per transition and in
\* transition order: the states it has received are a prefix of the
\* transitions of the job.
C13_StatusCallbackPerTransition ==
    \A i \in 1..Len(handle.scbs) :
        handle.scbs[i].early
            => IsPrefix(handle.scbs[i].got, Tail(hist[handle.job]))

\* C14: a completion callback registered on the handle is never called more
\* than once.
C14_CompletionCalledOnce ==
    \A i \in 1..Len(handle.ccbs) : Len(handle.ccbs[i].got) <= 1

\* C15: an on_completion(cb) call made while the job's stored state is
\* terminal calls cb exactly once before it returns.
C15_LateCompletionFiresNow ==
    [][(/\ Len(handle'.ccbs) = Len(handle.ccbs) + 1
        /\ jobs[handle.job].status \in TerminalStates)
           => Len(handle'.ccbs[Len(handle'.ccbs)].got) = 1]_vars

\* C16: a get_status call returns the status whatever its callbacks do, and
\* calls every registered status callback once and, when the status read is
\* terminal, every registered completion callback once; an on_completion
\* call that finds a terminal status returns normally and calls every
\* completion callback once; neither changes the runner threads.
C16_CallbackFailureIsolated ==
    [][/\ handle'.refreshes = handle.refreshes + 1
          => /\ hcall'.ret = "JobStatus"
             /\ \A i \in 1..Len(handle.scbs) :
                   Len(handle'.scbs[i].got) = Len(handle.scbs[i].got) + 1
             /\ hcall'.status \in TerminalStates
                   => \A i \in 1..Len(handle.ccbs) :
                         Len(handle'.ccbs[i].got) = Len(handle.ccbs[i].got) + 1
             /\ pc' = pc /\ exc' = exc
       /\ (Len(handle'.ccbs) = Len(handle.ccbs) + 1
           /\ hcall'.status \in TerminalStates)
          => /\ hcall'.ret = "None"
             /\ \A i \in 1..Len(handle.ccbs) :
                   Len(handle'.ccbs[i].got) = Len(handle.ccbs[i].got) + 1
             /\ Len(handle'.ccbs[Len(handle'.ccbs)].got) = 1
             /\ pc' = pc /\ exc' = exc]_vars

\* A get_status call has returned the status although the first status
\* callback raises, and the callback registered after it has been called.
C16_Witness ==
    /\ hcall.op = "get_status"
    /\ hcall.ret = "JobStatus"
    /\ Len(handle.scbs) = 2
    /\ handle.scbs[1].kind = "raises"
    /\ Len(handle.scbs[1].got) >= 1
    /\ Len(handle.scbs[2].got) >= 1

\* C17: a read of job.status returns the state the store holds for the job
\* at that moment.
C17_StatusReadIsCurrent ==
    [][(hcall' # hcall /\ hcall'.op = "status")
           => hcall'.status = jobs[handle.job].status]_vars

\* C18: a get_results call that is waiting while the store holds a terminal
\* state for the job eventually returns or raises.
C18_ResultsTerminates ==
    (handle.pc # "idle" /\ jobs[handle.job].status \in TerminalStates)
        ~> (handle.pc = "idle")

\* C19: a get_results call that ends on a FAILED or CANCELLED job returns no
\* results and raises JobExecutionError, the SDK's execution-failure kind,
\* carrying the error stored for the job.
C19_FailedResultsRaiseStoredError ==
    [][(/\ handle.pc = "results_check"
        /\ handle'.pc = "idle"
        /\ hcall'.status \in {FAILED, CANCELLED})
           => /\ hcall'.value = Absent
              /\ hcall'.ret = "JobExecutionError"
              /\ hcall'.error # Absent
              /\ jobs[handle.job].error # Absent
                    => hcall'.error = jobs[handle.job].error]_vars

\* C20: the handle asks the backend for the results at most once, keeps the
\* results it has fetched, and every get_results call that returns on a
\* COMPLETED job returns those kept results, which are the stored ones.
C20_ResultsFetchedOnce ==
    [][/\ handle'.fetches <= 1
       /\ handle.results # Absent => handle'.results = handle.results
       /\ (handle.pc = "results_check" /\ handle'.pc = "idle"
           /\ hcall'.status = COMPLETED)
          => /\ hcall'.ret = "JobResults"
             /\ hcall'.value = handle'.results
             /\ hcall'.value = jobs[handle.job].results
             /\ hcall'.value # Absent]_vars

\* The second get_results call on the handle has returned results.
C20_Witness ==
    /\ hcall.op = "get_results"
    /\ hcall.ret = "JobResults"
    /\ handle.calls = 2
    /\ handle.pc = "idle"
    /\ handle.fetches = 1

MatchingIds(tbl, status) ==
    LET ids == [i \in 1..Len(tbl) |-> i]
    IN  SelectSeq(ids, LAMBDA i : status = NoFilter \/ tbl[i].status = status)

Min(a, b) == IF a <= b THEN a ELSE b

\* C22: in every state of the job table, list_jobs with any filter and any
\* limit >= 1 returns the ids of the first min(limit, n) of the n stored
\* jobs that match the filter, in submission order; and no step changes the
\* id held at a position of the table.
C22_ListIsOrderedPrefix ==
    /\ [](\A status \in Filters, limit \in 1..MaxLimit :
             ListJobsRet(jobs, status, limit) =
                 SubSeq(MatchingIds(jobs, status), 1,
                        Min(limit, Len(MatchingIds(jobs, status)))))
    /\ [][\A i \in DOMAIN jobs :
             i \in DOMAIN jobs' /\ jobs'[i].job_id = jobs[i].job_id]_vars

\* The table holds a FAILED job followed by a COMPLETED one: the filtered
\* listing skips the first, and the unfiltered listing with limit 1 stops
\* before the second.
C22_Witness ==
    /\ Len(jobs) = 2
    /\ jobs[1].status = FAILED
    /\ jobs[2].status = COMPLETED
    /\ ListJobsRet(jobs, COMPLETED, 1) = << 2 >>
    /\ ListJobsRet(jobs, NoFilter, 1) = << 1 >>
    /\ ListJobsRet(jobs, NoFilter, 2) = << 1, 2 >>

\* C29: a list_jobs call returns at most limit jobs, for every limit >= 0.
C29_ListCappedAtLimit ==
    listing.made => Len(listing.ret) <= listing.limit

\* C23: a backend call with a job id the table does not hold raises a
\* not-found error, returns no value, and leaves the table unchanged.
C23_UnknownIdFails ==
    [][\A op \in IdOps, j \in JobIds :
          UnknownIdCall(op, j)
              => /\ lastCall'.ret \in {"QETLError", "JobNotFoundError"}
                 /\ jobs' = jobs]_vars

\* C24: submit_job of a file that lacks a required top-level field (one of
\* them, or all of them in an empty document) raises in the caller, adds no
\* record to the table, starts no runner thread and leaves every runner
\* thread where it was; and a job id without a record has no runner thread,
\* so no executor runs for it.
C24_RejectedSubmitLeavesNoTrace ==
    /\ [][(SubmitJob("missing_field") \/ SubmitJob("empty"))
             => /\ lastCall'.ret \in {"ValidationError", "TypeError"}
                /\ jobs' = jobs
                /\ pc' = pc /\ hist' = hist
                /\ exc' = exc /\ result' = result]_vars
    /\ [](\A j \in JobIds :
             j \notin DOMAIN jobs
                 => pc[j] = "idle" /\ hist[j] = << >> /\ result[j] = Absent)

\* A submission has been rejected with ValidationError while an earlier job
\* is running; the table holds that job only.
C24_Witness ==
    /\ lastCall.op = "submit_job"
    /\ lastCall.ret = "ValidationError"
    /\ Len(jobs) = 1
    /\ jobs[1].status = RUNNING
    /\ pc[2] = "idle"

\* C25: the executor is called for a job only right after its RUNNING
\* update and only while the thread holds no outcome of an earlier call or
\* failure, and every call leaves an outcome (a result or an exception) that
\* is never cleared: so it is called at most once per job, never again after
\* a failure or timeout, and never for a job that did not reach RUNNING.
C25_ExecutorRunsAtMostOnce ==
    /\ [][\A j \in JobIds :
             RunnerExec(j)
                 => /\ result[j] = Absent /\ exc[j] = Absent
                    /\ Last(hist[j]) = RUNNING
                    /\ result'[j] # Absent \/ exc'[j] # Absent]_vars
    /\ [][\A j \in JobIds :
             /\ result[j] # Absent => result'[j] = result[j]
             /\ exc[j] # Absent => exc'[j] = exc[j]]_vars

\* A job whose executor timed out has finished FAILED without being run
\* again, and another job failed before it ever reached RUNNING.
C25_Witness ==
    /\ Len(jobs) = 2
    /\ pc[1] = "done"
    /\ exc[1] # Absent
    /\ exc[1][1].message = PipelineErrorMessage("timeout")
    /\ jobs[1].status = FAILED
    /\ pc[2] = "done"
    /\ hist[2] = << SUBMITTED, VALIDATING, FAILED >>

\* C26: no step of a runner thread changes what a client call returned or
\* raised or the Job object a client holds; a runner thread has ended only
\* when its job is terminal; and under fair scheduling the run reaches a
\* point from which every job whose thread caught an exception is FAILED
\* and holds an error with the type and message of that exception and a
\* timestamp.
C26_FailureCapturedInRecord ==
    /\ [][\A j \in JobIds :
             RunnerStep(j)
                 => lastCall' = lastCall /\ hcall' = hcall /\ handle' = handle]_vars
    /\ [](\A j \in JobIds :
             pc[j] = "done"
                 => j \in DOMAIN jobs /\ jobs[j].status \in TerminalStates)
    /\ <>[](\A j \in DOMAIN jobs :
               exc[j] # Absent
                   => /\ jobs[j].status = FAILED
                      /\ jobs[j].error # Absent
                      /\ jobs[j].error[1].type = exc[j][1].type
                      /\ jobs[j].error[1].message = exc[j][1].message
                      /\ jobs[j].error[1].timestamp >= 1)

\* The executor failed, the record is FAILED and holds the error, and the
\* client that waited for the job got its status back, not an exception.
C26_Witness ==
    /\ handle.made
    /\ jobs[handle.job].status = FAILED
    /\ jobs[handle.job].error # Absent
    /\ jobs[handle.job].error[1].type = "JobExecutionError"
    /\ hcall.op = "wait_until_complete"
    /\ hcall.ret = "JobStatus"
    /\ hcall.status = FAILED

\* ------------------------------------------------- JobBuilder properties
\* The elements of a sequence.
Range(s) == {s[i] : i \in DOMAIN s}

\* The configuration rules in the words of the builder's contract.
HasName(c) == c.pipeline_name # ""
HasInput(c) == Len(c.input_sources) >= 1
HasTransformation(c) == Len(c.transformations) >= 1
IsNamed(c, dep) ==
    \E k \in DOMAIN c.transformations :
        c.transformations[k].name = Present(dep)
AllDependencies(c) ==
    UNION {Range(GetOr(c.transformations[i].dependencies, << >>))
           \cup Range(GetOr(c.transformations[i].config, << >>)) :
           i \in DOMAIN c.transformations}
WellFormed(c) ==
    /\ HasName(c) /\ HasInput(c) /\ HasTransformation(c)
    /\ \A dep \in AllDependencies(c) : IsNamed(c, dep)

\* C27: a submit on a configuration that fails validation raises
\* ValidationError without a call of the client's submit_job and without a
\* new job; a submit on a configuration that passes makes exactly one call
\* of submit_job and returns the job that call created.
C27_SubmitValidatesFirst ==
    [][BuilderSubmit
          => IF WellFormed(builder.config)
             THEN /\ builder'.calls = builder.calls + 1
                  /\ Len(jobs') = Len(jobs) + 1
                  /\ builder'.ret = "Job"
                  /\ builder'.job = Len(jobs')
                  /\ lastCall'.op = "client.submit_job"
                  /\ lastCall'.job = builder'.job
             ELSE /\ builder'.ret = "ValidationError"
                  /\ builder'.calls = builder.calls
                  /\ jobs' = jobs /\ lastCall' = lastCall]_vars

\* Both outcomes met in one run: the last submit was rejected after an
\* earlier one had created a job.
C27_Witness ==
    /\ builder.op = "submit"
    /\ builder.ret = "ValidationError"
    /\ builder.calls = 1
    /\ Len(jobs) = 1

C30_ClientSubmitRaisesValidationError ==
    [][\A kind \in {"missing_field", "bad_yaml"} :
          ClientSubmitJob(kind) => lastCall'.ret = "ValidationError"]_vars

\* ------------------------------------------------- job record properties
\* The state and progress written together by submit_job and by the six
\* updates of the try block.
StateProgressPairs ==
    {<< SUBMITTED, 0 >>, << VALIDATING, 10 >>, << QUEUED, 20 >>,
     << INITIALIZING, 30 >>, << RUNNING, 40 >>, << COMPLETING, 90 >>,
     << COMPLETED, 100 >>}

\* C32: in every reachable state every stored job that is neither FAILED
\* nor CANCELLED has one of the seven (state, progress) pairs.
C32_StateAndProgressTogether ==
    \A j \in DOMAIN jobs :
        jobs[j].status \notin {FAILED, CANCELLED}
            => << jobs[j].status, jobs[j].progress >> \in StateProgressPairs

\* One job has completed with progress 100 while another is still running
\* at progress 40.
C32_Witness ==
    /\ Len(jobs) = 2
    /\ jobs[1].status = COMPLETED /\ jobs[1].progress = 100
    /\ jobs[2].status = RUNNING /\ jobs[2].progress = 40

\* C35: in every reachable state a job whose stored state is COMPLETED has
\* its results stored, and a get_job_results call for a job that is
\* COMPLETED returns the results instead of raising.
C35_CompletedHasResults ==
    /\ [](\A j \in DOMAIN jobs :
             jobs[j].status = COMPLETED => jobs[j].results # Absent)
    /\ [][\A j \in JobIds :
             (GetJobResults(j) /\ jobs[j].status = COMPLETED)
                 => lastCall'.ret = "JobResults"]_vars

\* get_job_results has returned the results of a COMPLETED job.
C35_Witness ==
    /\ lastCall.op = "get_job_results"
    /\ lastCall.ret = "JobResults"
    /\ jobs[lastCall.job].status = COMPLETED
    /\ jobs[lastCall.job].results = result[lastCall.job]

\* C34: every argument a completion callback of the Job object has been
\* called with is the stored results of the job when the job's stored state
\* is COMPLETED and None when it is FAILED or CANCELLED, and no completion
\* callback has been called while the stored state is non-terminal.
C34_CompletionArgument ==
    handle.made =>
        \A i \in 1..Len(handle.ccbs) :
            \A k \in 1..Len(handle.ccbs[i].got) :
                LET rec == jobs[handle.job]
                    arg == handle.ccbs[i].got[k]
                IN  /\ rec.status \in TerminalStates
                    /\ rec.status = COMPLETED
                           => arg # Absent /\ arg = rec.results
                    /\ rec.status \in {FAILED, CANCELLED} => arg = Absent

\* One completion callback has received the results of a completed job.
C34_Witness ==
    /\ handle.made
    /\ jobs[handle.job].status = COMPLETED
    /\ Len(handle.ccbs) >= 1
    /\ Len(handle.ccbs[1].got) >= 1
    /\ handle.ccbs[1].got[1] = jobs[handle.job].results

\* C33: a get_job_logs call with follow=True returns its list only once
\* the job's stored state is terminal.
C33_FollowEndsAtTerminal ==
    [][\A j \in JobIds :
          GetJobLogs(j, TRUE) => jobs[j].status \in TerminalStates]_vars

\* C40: for any job table get_instance_info raises nothing, its
\* active_jobs is the number of records whose state is non-terminal and its
\* total_jobs is the number of records.
C40_InstanceInfoCounts ==
    /\ [][InfoActive
             => /\ info'.ret # "AttributeError"
                /\ info'.active =
                       Cardinality({j \in DOMAIN jobs :
                                       jobs[j].status \notin TerminalStates})]_vars
    /\ [][InfoTotal => info'.ret = "dict" /\ info'.total = Len(jobs)]_vars

C39_CloneIsIndependent ==
    /\ [][(CloneAddInputSource
            \/ \E a \in TransformationArgs : CloneAddTransformation(a))
             => builder'.config = builder.config]_vars
    /\ [][(clone.made
            /\ (AddInputSource
                 \/ \E a \in TransformationArgs : AddTransformation(a)))
             => CloneConfig' = CloneConfig]_vars

\* C37: for the job submitted by JobBuilder.submit, the temporary spec
\* file exists at every step in which the runner thread opens it or hands
\* it to the executor, and it has been removed only in states in which the
\* job is terminal.
C37_SpecFileOutlivesJob ==
    /\ [][\A j \in JobIds :
             ((RunnerLoad(j) \/ RunnerExec(j)) /\ builder.tmpjob = j)
                 => builder.tmp = "exists"]_vars
    /\ [](builder.tmp = "removed"
             => jobs[builder.tmpjob].status \in TerminalStates)

\* C36: _job_lock is never held by a runner thread while it opens the spec
\* file or runs the executor, nor by the client thread while its callbacks
\* run; a held lock is released; and every call of the client thread
\* (submit_job, get_job_status, cancel_job, list_jobs, Job.get_status)
\* returns, whether or not an executor ever finishes.
C36_LockNeverBlocks ==
    /\ [](\A j \in JobIds : sync.holder = j => pc[j] \notin {"load", "exec"})
    /\ [](sync.cpc = "callbacks" => sync.holder # ClientThread)
    /\ (sync.holder # Free) ~> (sync.holder = Free)
    /\ (sync.cpc # "idle") ~> (sync.cpc = "idle")

\* A call that took the lock has returned while an executor is in flight.
C36_Witness ==
    /\ sync.cpc = "idle"
    /\ sync.calls > 0
    /\ sync.holder = Free
    /\ lastCall.op \in {"get_job_status", "cancel_job"}
    /\ \E j \in DOMAIN jobs : pc[j] = "exec"

\* C31: the job table changes only in a step of the thread that holds
\* _job_lock, and get_instance_info reads it only while the client thread
\* holds the lock.
C31_TableOnlyUnderLock ==
    /\ [][jobs' # jobs => sync.holder # Free]_vars
    /\ [][(ClientInfoActive \/ ClientInfoTotal)
              => sync.holder = ClientThread]_vars
====
